---- MODULE Spec2Model ----
(***************************************************************************)
(* State-machine model of the record-management layer of rust-scripts:    *)
(* the Bookmark Store (src/bkmk/manager.rs, driven by src/bkmk/main.rs)   *)
(* and the Item Store (src/itmn/manager.rs).  One behaviour follows one    *)
(* process: a store is constructed from a loaded record list, then the     *)
(* manager's operations are applied one at a time, and the process ends   *)
(* by saving the store if it is dirty.                                      *)
(***************************************************************************)
EXTENDS Integers, Sequences, FiniteSets, TLC

VARIABLES
    tool,          \* "bkmk" or "itmn": which store this process constructed
    data,          \* the record collection (Vec<Bookmark> or Vec<Item>)
    modified,      \* the dirty flag
    used_ids,      \* BookmarkManager.used_ids
    internal_ids,  \* ItemManager.internal_ids
    ref_ids,       \* ItemManager.ref_ids
    loaded,        \* the record list deserialized from the file at start
    lastOp,        \* name of the last operation called
    result,        \* what the last operation returned
    wrote,         \* whether the last operation wrote the destination file
    asked,         \* how many times the last operation asked for confirmation
    calls,         \* number of mutating operations called since construction
    saves          \* number of save_if_modified calls

vars == <<tool, data, modified, used_ids, internal_ids, ref_ids,
          loaded, lastOp, result, wrote, asked, calls, saves>>

----------------------------------------------------------------------------
(* Bounds of the model. *)

MaxSize == 3        \* records in the loaded file plus mutating calls made on the store
MaxInitId == 1      \* bookmark ids and internal IDs found in a loaded file are 0..MaxInitId
MaxInitRef == 0     \* reference IDs found in a loaded item file are 0..MaxInitRef
MaxRange == 2       \* a mass_modify selection has at most this many identifiers
MaxSaves == 2       \* save_if_modified calls in a row
MaxSlashes == 2     \* a URL ends in at most this many slashes

----------------------------------------------------------------------------
(* Option<T>: None is the empty sequence, Some(v) the one-element sequence. *)

None == << >>

Some(v) == <<v>>

IsSome(o) == o # None

Unwrap(o) == o[1]

Ok == [kind |-> "Ok", id |-> None]

Err(k, o) == [kind |-> k, id |-> o]

States == {"Todo", "Note", "Done"}

----------------------------------------------------------------------------
(* core::misc (not part of the sources at hand): the free-ID allocator. *)

find_free_value(used) ==
    CHOOSE n \in 0..Cardinality(used) :
        /\ n \notin used
        /\ \A m \in 0..(n - 1) : m \in used

find_lowest_free_value(used) == find_free_value(used)

----------------------------------------------------------------------------
(* Items. *)

Item(in, ref, nm, ctx, st, ch) ==
    [internal_id |-> in, ref_id |-> ref, name |-> nm, context |-> ctx,
     state |-> st, children |-> ch]

\* Item::normalize: a Done item carries no reference ID.
normalize(item) ==
    IF item.state = "Done" THEN [item EXCEPT !.ref_id = None] ELSE item

\* All items of a forest in pre-order (a node, then its children, then its
\* next sibling).
RECURSIVE PreOrder(_)
PreOrder(items) ==
    IF items = << >> THEN << >>
    ELSE <<Head(items)>> \o PreOrder(Head(items).children) \o PreOrder(Tail(items))

\* The search looking into the children of an item before the item itself.
RECURSIVE f_children_first(_, _, _)
f_children_first(items, k, ref_id) ==
    IF k > Len(items) THEN None
    ELSE LET find_result == f_children_first(items[k].children, 1, ref_id) IN
         IF IsSome(find_result) THEN <<k>> \o find_result
         ELSE IF items[k].ref_id = Some(ref_id) THEN <<k>>
         ELSE f_children_first(items, k + 1, ref_id)

\* ItemManager::find, inner fn f: the loop over `items` from position k.
\* Returns the path (child indices from the root) of the match, or None.
RECURSIVE f(_, _, _)
f(items, k, ref_id) ==
    IF k > Len(items) THEN None
    ELSE IF items[k].ref_id = Some(ref_id) THEN <<k>>
    ELSE LET find_result == f(items[k].children, 1, ref_id) IN
         IF IsSome(find_result) THEN <<k>> \o find_result
         ELSE f(items, k + 1, ref_id)

find(items, ref_id) == f(items, 1, ref_id)

\* ItemManager::find_mut: same traversal, over a mutable borrow.
RECURSIVE f_mut(_, _, _)
f_mut(items, k, ref_id) ==
    IF k > Len(items) THEN None
    ELSE IF items[k].ref_id = Some(ref_id) THEN <<k>>
    ELSE LET find_result == f_mut(items[k].children, 1, ref_id) IN
         IF IsSome(find_result) THEN <<k>> \o find_result
         ELSE f_mut(items, k + 1, ref_id)

find_mut(items, ref_id) == f_mut(items, 1, ref_id)

\* The item a path leads to.
RECURSIVE ItemAt(_, _)
ItemAt(items, path) ==
    IF Len(path) = 1 THEN items[path[1]]
    ELSE ItemAt(items[path[1]].children, Tail(path))

\* The forest with the item at `path` replaced by `new`: a write through the
\* &mut Item that find_mut returned.
RECURSIVE ReplaceAt(_, _, _)
ReplaceAt(items, path, new) ==
    IF Len(path) = 1
    THEN [items EXCEPT ![path[1]] = new]
    ELSE [items EXCEPT ![path[1]] =
            [@ EXCEPT !.children = ReplaceAt(@, Tail(path), new)]]

----------------------------------------------------------------------------
(* Inputs of the Item Store. *)

Ids == 0..(MaxInitId + 1)

\* The name and context arguments of the add operations.
Names == {"a"}

Contexts == {None}

\* The state argument of the add operations.
AddStates == {"Todo", "Done"}

\* Sequences over S of length at most n.
SeqsUpTo(S, n) == UNION {[1..k -> S] : k \in 0..n}

\* Childless items as a loaded file can hold them.
InitLeafs ==
    {Item(in, ref, "a", None, st, << >>) :
        in \in 0..MaxInitId,
        ref \in {None} \cup {Some(r) : r \in 0..MaxInitRef},
        st \in {"Todo", "Done"}}

\* Items that have a child in a loaded file.
InitParents ==
    {Item(0, ref, "a", None, "Todo", << >>) : ref \in {None, Some(0)}}

\* Record lists a loaded item file can hold: flat lists, and one item with
\* one child.
ItemDocs ==
    SeqsUpTo(InitLeafs, MaxSize - 1)
        \cup {<<[p EXCEPT !.children = <<c>>]>> : p \in InitParents, c \in InitLeafs}

\* The `children` argument of the add operations.
ChildArgs == {<< >>, <<Item(0, Some(0), "a", None, "Todo", << >>)>>}

\* ItemBatchMod: name, context and note, each optional.
BatchMod(nm, ctx, nt) == [name |-> nm, context |-> ctx, note |-> nt]

BatchMods ==
    {BatchMod(Some("b"), Some("c"), None),
     BatchMod(None, Some(""), None),
     BatchMod(None, None, Some(TRUE)),
     BatchMod(None, None, Some(FALSE))}

\* The selections mass_modify is called with, in ascending order: the loop
\* of mass_modify does the same to each identifier, whatever the order.
Ranges ==
    {range \in SeqsUpTo(0..MaxInitId, MaxRange) :
        \A k \in 1..(Len(range) - 1) : range[k] <= range[k + 1]}

----------------------------------------------------------------------------
(* ItemManager::new *)

\* The first loop checking the internal ID of a record before its
\* reference ID.
RECURSIVE new_fill_internal_first(_, _, _, _)
new_fill_internal_first(items, k, ref_set, in_set) ==
    IF k > Len(items)
    THEN [result |-> Ok, ref_set |-> ref_set, in_set |-> in_set]
    ELSE LET item == items[k] IN
         IF item.internal_id \in in_set
         THEN [result |-> Err("RepeatedInternalID", Some(item.internal_id)),
               ref_set |-> ref_set, in_set |-> in_set]
         ELSE IF IsSome(item.ref_id) /\ Unwrap(item.ref_id) \in ref_set
              THEN [result |-> Err("RepeatedRefID", item.ref_id),
                    ref_set |-> ref_set, in_set |-> in_set]
              ELSE new_fill_internal_first(items, k + 1,
                       IF IsSome(item.ref_id)
                       THEN ref_set \cup {Unwrap(item.ref_id)}
                       ELSE ref_set,
                       in_set \cup {item.internal_id})

\* First loop: fill up the ID sets, fail on a repeated ID.  Visits the
\* top-level records from position k on.
RECURSIVE new_fill(_, _, _, _)
new_fill(items, k, ref_set, in_set) ==
    IF k > Len(items)
    THEN [result |-> Ok, ref_set |-> ref_set, in_set |-> in_set]
    ELSE LET item == items[k] IN
         IF IsSome(item.ref_id) /\ Unwrap(item.ref_id) \in ref_set
         THEN [result |-> Err("RepeatedRefID", item.ref_id),
               ref_set |-> ref_set, in_set |-> in_set]
         ELSE LET rs == IF IsSome(item.ref_id)
                        THEN ref_set \cup {Unwrap(item.ref_id)}
                        ELSE ref_set
              IN  IF item.internal_id \in in_set
                  THEN [result |-> Err("RepeatedInternalID", Some(item.internal_id)),
                        ref_set |-> rs, in_set |-> in_set]
                  ELSE new_fill(items, k + 1, rs, in_set \cup {item.internal_id})

\* Second loop: a top-level Todo or Note item without reference ID gets
\* find_free_value(&ref_set); ref_set itself is not changed by the loop.
new_backfill(items, ref_set) ==
    [k \in 1..Len(items) |->
        IF items[k].state \in {"Todo", "Note"} /\ items[k].ref_id = None
        THEN [items[k] EXCEPT !.ref_id = Some(find_free_value(ref_set))]
        ELSE items[k]]

ItemManager_new(items) ==
    LET filled == new_fill(items, 1, {}, {}) IN
    IF filled.result.kind # "Ok"
    THEN [result |-> filled.result, data |-> << >>, modified |-> FALSE,
          ref_ids |-> {}, internal_ids |-> {}]
    ELSE [result |-> Ok,
          data |-> new_backfill(items, filled.ref_set),
          modified |-> FALSE,
          ref_ids |-> filled.ref_set,
          internal_ids |-> filled.in_set]

\* The process goes on after an operation unless construction failed, the
\* operation panicked or main returned.
Running ==
    /\ result.kind # "Panic"
    /\ ~(lastOp = "new" /\ result.kind # "Ok")
    /\ lastOp # "main"

\* The number of records of the loaded file, children included.
LoadedSize == IF tool = "itmn" THEN Len(PreOrder(loaded)) ELSE Len(loaded)

\* A further mutating call is explored.  main saves as its last step, so no
\* call follows a save.
MayCall == Running /\ saves = 0 /\ LoadedSize + calls < MaxSize

InitItmn ==
    \E doc \in ItemDocs :
        LET m == ItemManager_new(doc) IN
        /\ tool = "itmn"
        /\ data = m.data
        /\ modified = m.modified
        /\ used_ids = {}
        /\ internal_ids = m.internal_ids
        /\ ref_ids = m.ref_ids
        /\ loaded = doc
        /\ lastOp = "new"
        /\ result = m.result
        /\ wrote = FALSE
        /\ asked = 0
        /\ calls = 0
        /\ saves = 0

----------------------------------------------------------------------------
(* Operations of the Item Store. *)

add_item_on_root(name, context, state, children) ==
    LET free_ref_id == find_free_value(ref_ids)
        free_internal_id == find_free_value(internal_ids)
    IN  /\ tool = "itmn" /\ MayCall
        /\ ref_ids' = ref_ids \cup {free_ref_id}
        /\ internal_ids' = internal_ids \cup {free_internal_id}
        /\ data' = Append(data, normalize(Item(free_internal_id, Some(free_ref_id),
                                               name, context, state, children)))
        /\ modified' = TRUE
        /\ lastOp' = "add_item_on_root"
        /\ result' = Ok
        /\ wrote' = FALSE
        /\ asked' = 0
        /\ calls' = calls + 1
        /\ saves' = 0
        /\ UNCHANGED <<tool, used_ids, loaded>>

\* The item tree after add_child_to_ref_id's `if let Some(i) = find_mut(..)`.
push_child(items, found, child) ==
    IF IsSome(found)
    THEN LET i == ItemAt(items, found) IN
         ReplaceAt(items, found, [i EXCEPT !.children = Append(@, child)])
    ELSE items

\* add_child_to_ref_id marking the store dirty on the success path only.
add_child_dirty_on_success(ref_id, name, context, state, children) ==
    LET free_ref_id == find_free_value(ref_ids)
        free_internal_id == find_free_value(internal_ids)
        found == find_mut(data, ref_id)
    IN  /\ tool = "itmn" /\ MayCall
        /\ ref_ids' = ref_ids \cup {free_ref_id}
        /\ internal_ids' = internal_ids \cup {free_internal_id}
        /\ data' = push_child(data, found,
                              normalize(Item(free_internal_id, Some(free_ref_id),
                                             name, context, state, children)))
        /\ result' = IF IsSome(found) THEN Ok ELSE Err("NotFound", None)
        /\ modified' = (modified \/ IsSome(found))
        /\ lastOp' = "add_child_to_ref_id"
        /\ wrote' = FALSE
        /\ asked' = 0
        /\ calls' = calls + 1
        /\ saves' = 0
        /\ UNCHANGED <<tool, used_ids, loaded>>

add_child_to_ref_id(ref_id, name, context, state, children) ==
    LET free_ref_id == find_free_value(ref_ids)
        free_internal_id == find_free_value(internal_ids)
        found == find_mut(data, ref_id)
    IN  /\ tool = "itmn" /\ MayCall
        /\ ref_ids' = ref_ids \cup {free_ref_id}
        /\ internal_ids' = internal_ids \cup {free_internal_id}
        /\ data' = push_child(data, found,
                              normalize(Item(free_internal_id, Some(free_ref_id),
                                             name, context, state, children)))
        /\ result' = IF IsSome(found) THEN Ok ELSE Err("NotFound", None)
        /\ modified' = TRUE
        /\ lastOp' = "add_child_to_ref_id"
        /\ wrote' = FALSE
        /\ asked' = 0
        /\ calls' = calls + 1
        /\ saves' = 0
        /\ UNCHANGED <<tool, used_ids, loaded>>

\* The closure mass_modify hands to interact_mut.
mass_modify_closure(i, m) ==
    LET named == IF IsSome(m.name) THEN [i EXCEPT !.name = Unwrap(m.name)] ELSE i
        ctxed == IF IsSome(m.context)
                 THEN IF Unwrap(m.context) = ""
                      THEN [named EXCEPT !.context = None]
                      ELSE [named EXCEPT !.context = Some(Unwrap(m.context))]
                 ELSE named
    IN  IF IsSome(m.note)
        THEN IF Unwrap(m.note)
             THEN [ctxed EXCEPT !.state = "Note"]
             ELSE IF ctxed.state = "Note"
                  THEN [ctxed EXCEPT !.state = "Todo"]
                  ELSE ctxed
        ELSE ctxed

\* Manager::interact_mut (core::data, not part of the sources at hand):
\* find_mut, apply the closure on a match and call after_interact_mut_hook.
interact_mut(st, id, m) ==
    LET found == find_mut(st.data, id) IN
    IF IsSome(found)
    THEN [data |-> ReplaceAt(st.data, found,
                             mass_modify_closure(ItemAt(st.data, found), m)),
          modified |-> TRUE]
    ELSE st

\* mass_modify's `for &id in range` from position k on.
RECURSIVE mass_modify_loop(_, _, _, _)
mass_modify_loop(st, range, k, m) ==
    IF k > Len(range) THEN st
    ELSE mass_modify_loop(interact_mut(st, range[k], m), range, k + 1, m)

\* mass_modify running its loop without reading the answer to the prompt.
mass_modify_effect_unconfirmed(range, m, confirmed) ==
    LET st == [data |-> data, modified |-> modified]
        out == IF Len(range) > 1
               THEN mass_modify_loop(st, range, 1, m)
               ELSE st
    IN  [data |-> out.data, modified |-> out.modified,
         asked |-> IF Len(range) > 1 THEN 1 ELSE 0]

\* What mass_modify makes of the store it is called on: everything happens
\* inside `if range.len() > 1`, the prompt first and the loop under its
\* answer.  `confirmed` is the answer of
\* core::misc::confirm_with_default(false), read only when the prompt is
\* shown.
mass_modify_effect(range, m, confirmed) ==
    LET st == [data |-> data, modified |-> modified]
        out == IF Len(range) > 1 /\ confirmed
               THEN mass_modify_loop(st, range, 1, m)
               ELSE st
    IN  [data |-> out.data, modified |-> out.modified,
         asked |-> IF Len(range) > 1 THEN 1 ELSE 0]

mass_modify(range, m, confirmed) ==
    LET out == mass_modify_effect(range, m, confirmed)
    IN  /\ tool = "itmn" /\ MayCall
        /\ data' = out.data
        /\ modified' = out.modified
        /\ asked' = out.asked
        /\ lastOp' = "mass_modify"
        /\ result' = Ok
        /\ wrote' = FALSE
        /\ calls' = calls + 1
        /\ saves' = 0
        /\ UNCHANGED <<tool, used_ids, internal_ids, ref_ids, loaded>>

\* save_if_modified writing whether or not the store is dirty.
Item_save_always ==
    /\ tool = "itmn" /\ Running /\ saves < MaxSaves
    /\ saves' = saves + 1
    /\ wrote' = TRUE
    /\ lastOp' = "save_if_modified"
    /\ result' = Ok
    /\ asked' = 0
    /\ UNCHANGED <<tool, calls, data, modified, used_ids, internal_ids, ref_ids, loaded>>

\* ItemManager::save_if_modified; save_to_file writes the whole collection.
Item_save_if_modified ==
    /\ tool = "itmn" /\ Running /\ saves < MaxSaves
    /\ saves' = saves + 1
    /\ wrote' = modified
    /\ lastOp' = "save_if_modified"
    /\ result' = Ok
    /\ asked' = 0
    /\ UNCHANGED <<tool, calls, data, modified, used_ids, internal_ids, ref_ids, loaded>>

AddItemOnRoot ==
    /\ tool = "itmn" /\ MayCall
    /\ \E name \in Names, context \in Contexts, state \in AddStates, children \in ChildArgs :
        add_item_on_root(name, context, state, children)

AddChildToRefId ==
    /\ tool = "itmn" /\ MayCall
    /\ \E ref_id \in Ids, name \in Names, context \in Contexts, state \in AddStates :
        add_child_to_ref_id(ref_id, name, context, state, << >>)

MassModify ==
    /\ tool = "itmn" /\ MayCall
    /\ \E range \in Ranges, m \in BatchMods :
        \E confirmed \in (IF Len(range) > 1 THEN BOOLEAN ELSE {FALSE}) :
            mass_modify(range, m, confirmed)

NextItmn ==
    \/ AddItemOnRoot
    \/ AddChildToRefId
    \/ MassModify
    \/ Item_save_if_modified

SpecItmn == InitItmn /\ [][NextItmn]_vars

----------------------------------------------------------------------------
(* Bookmarks.  A string is the sequence of its chars. *)

Bookmark(id, name, url, tags, archived) ==
    [id |-> id, name |-> name, url |-> url, tags |-> tags, archived |-> archived]

\* Bytes a char takes in UTF-8.
len_utf8(c) == IF c = "e'" THEN 2 ELSE 1

\* str::len: the length in bytes.
RECURSIVE str_len(_)
str_len(str) ==
    IF str = << >> THEN 0 ELSE len_utf8(Head(str)) + str_len(Tail(str))

\* str::chars().nth(n): the n-th char, counted from 0.
chars_nth(str, n) ==
    IF n >= 0 /\ n < Len(str) THEN Some(str[n + 1]) ELSE None

Whitespace == {" "}

\* str::trim
RECURSIVE trim_start(_)
trim_start(str) ==
    IF str # << >> /\ Head(str) \in Whitespace THEN trim_start(Tail(str)) ELSE str

RECURSIVE trim_end(_)
trim_end(str) ==
    IF str # << >> /\ str[Len(str)] \in Whitespace
    THEN trim_end(SubSeq(str, 1, Len(str) - 1))
    ELSE str

trim(str) == trim_end(trim_start(str))

\* n slashes.
RECURSIVE Slashes(_)
Slashes(n) == IF n = 0 THEN << >> ELSE <<"/">> \o Slashes(n - 1)

\* The URLs of the model: "a", then slashes.
Urls == {<<"a">> \o Slashes(n) : n \in 0..MaxSlashes}

\* The `url` argument of the add operations.  "e'" stands for a two-byte
\* char such as U+00E9.
ArgUrls == Urls \cup {<< >>, <<"/">>, <<"e'">>, <<"e'", "/">>}

\* Page titles and typed titles, before trimming.
Titles == {<<" ", "t", " ">>}

BkNames == {<<"x">>}

TagArgs == {<< >>, <<"g">>}

\* Bookmarks as a loaded file can hold them.
InitBookmarks ==
    {Bookmark(id, <<"n">>, url, << >>, FALSE) : id \in 0..MaxInitId, url \in Urls}

BookmarkDocs == SeqsUpTo(InitBookmarks, MaxSize - 1)

----------------------------------------------------------------------------
(* BookmarkManager *)

\* new's loop without the repeated-ID check: every record's id is taken.
new_used_ids_unchecked(bookmarks, k, used) ==
    [result |-> Ok,
     used_ids |-> used \cup {bookmarks[j].id : j \in k..Len(bookmarks)}]

\* BookmarkManager::new: the loop over the records from position k on.
RECURSIVE new_used_ids(_, _, _)
new_used_ids(bookmarks, k, used) ==
    IF k > Len(bookmarks) THEN [result |-> Ok, used_ids |-> used]
    ELSE IF bookmarks[k].id \in used
         THEN [result |-> Err("RepeatedID", Some(bookmarks[k].id)), used_ids |-> used]
         ELSE new_used_ids(bookmarks, k + 1, used \cup {bookmarks[k].id})

BookmarkManager_new(bookmarks) ==
    LET filled == new_used_ids(bookmarks, 1, {}) IN
    IF filled.result.kind # "Ok"
    THEN [result |-> filled.result, data |-> << >>, modified |-> FALSE, used_ids |-> {}]
    ELSE [result |-> Ok, data |-> bookmarks, modified |-> FALSE,
          used_ids |-> filled.used_ids]

InitBkmk ==
    \E doc \in BookmarkDocs :
        LET m == BookmarkManager_new(doc) IN
        /\ tool = "bkmk"
        /\ data = m.data
        /\ modified = m.modified
        /\ used_ids = m.used_ids
        /\ internal_ids = {}
        /\ ref_ids = {}
        /\ loaded = doc
        /\ lastOp = "new"
        /\ result = m.result
        /\ wrote = FALSE
        /\ asked = 0
        /\ calls = 0
        /\ saves = 0

\* The closure check_repeated of already_has_url: the id of the first
\* bookmark, from position k on, whose url is exactly `url`.
RECURSIVE check_repeated(_, _, _)
check_repeated(bookmarks, k, url) ==
    IF k > Len(bookmarks) THEN None
    ELSE IF bookmarks[k].url = url THEN Some(bookmarks[k].id)
    ELSE check_repeated(bookmarks, k + 1, url)

\* already_has_url trying the trailing-slash-toggled form before the
\* verbatim one.
already_has_url_toggled_first(bookmarks, url) ==
    LET verbatim == check_repeated(bookmarks, 1, url)
        last == chars_nth(url, str_len(url) - 1)
        toggled == IF last = None THEN None
                   ELSE IF Unwrap(last) = "/"
                        THEN check_repeated(bookmarks, 1,
                                            SubSeq(url, 1, str_len(url) - 1))
                        ELSE check_repeated(bookmarks, 1, url \o <<"/">>)
    IN  IF IsSome(toggled) THEN [panic |-> FALSE, value |-> toggled]
        ELSE IF IsSome(verbatim) THEN [panic |-> FALSE, value |-> verbatim]
        ELSE IF last = None THEN [panic |-> TRUE, value |-> None]
        ELSE [panic |-> FALSE, value |-> None]

\* BookmarkManager::already_has_url.  `url.len() - 1` on an empty url
\* overflows: the debug build panics there, the release build wraps and
\* then unwraps the None of nth; nth counts chars while len counts bytes,
\* so the unwrap also panics when the url holds a multi-byte char.  When
\* nth finds a char every char is one byte and the byte slice
\* url[0..len-1] is the url without its last char.
already_has_url(bookmarks, url) ==
    LET verbatim == check_repeated(bookmarks, 1, url)
        last == chars_nth(url, str_len(url) - 1)
    IN  IF IsSome(verbatim) THEN [panic |-> FALSE, value |-> verbatim]
        ELSE IF last = None THEN [panic |-> TRUE, value |-> None]
        ELSE IF Unwrap(last) = "/"
             THEN [panic |-> FALSE,
                   value |-> check_repeated(bookmarks, 1,
                                            SubSeq(url, 1, str_len(url) - 1))]
             ELSE [panic |-> FALSE,
                   value |-> check_repeated(bookmarks, 1, url \o <<"/">>)]

BkUnchanged == UNCHANGED <<tool, internal_ids, ref_ids, loaded>>

\* A panic ends the process; nothing of the store is used afterwards.
Panicked(op) ==
    /\ lastOp' = op
    /\ result' = Err("Panic", None)
    /\ wrote' = FALSE
    /\ asked' = 0
    /\ calls' = calls + 1
    /\ saves' = 0
    /\ UNCHANGED <<data, modified, used_ids>>
    /\ BkUnchanged

\* An operation that returns `res` and leaves the store as it is.
Returned(op, res) ==
    /\ lastOp' = op
    /\ result' = res
    /\ wrote' = FALSE
    /\ asked' = 0
    /\ calls' = calls + 1
    /\ saves' = 0
    /\ UNCHANGED <<data, modified, used_ids>>
    /\ BkUnchanged

\* The tail of the adds taking the number of used ids as the new id.
Pushed_counting(op, name, url, tags) ==
    LET free_id == Cardinality(used_ids) IN
    /\ data' = Append(data, Bookmark(free_id, name, url, tags, FALSE))
    /\ used_ids' = used_ids \cup {free_id}
    /\ modified' = TRUE
    /\ lastOp' = op
    /\ result' = Ok
    /\ wrote' = FALSE
    /\ asked' = 0
    /\ calls' = calls + 1
    /\ saves' = 0
    /\ BkUnchanged

\* The push / insert / after_interact_mut_hook tail the two adds share.
Pushed(op, name, url, tags) ==
    LET free_id == find_lowest_free_value(used_ids) IN
    /\ data' = Append(data, Bookmark(free_id, name, url, tags, FALSE))
    /\ used_ids' = used_ids \cup {free_id}
    /\ modified' = TRUE
    /\ lastOp' = op
    /\ result' = Ok
    /\ wrote' = FALSE
    /\ asked' = 0
    /\ calls' = calls + 1
    /\ saves' = 0
    /\ BkUnchanged

add_bookmark(name, url, tags) ==
    LET has == already_has_url(data, url) IN
    /\ tool = "bkmk" /\ MayCall
    /\ IF has.panic THEN Panicked("add_bookmark")
       ELSE IF IsSome(has.value)
            THEN Returned("add_bookmark", Err("RepeatedUrl", has.value))
            ELSE Pushed("add_bookmark", name, url, tags)

\* `fetched` is what url_get_title returns and `typed` what read_line
\* returns (None: an error); `typed` is read only after a failed fetch with
\* read_line set.
add_bookmark_from_url(url, read_line, fetched, typed) ==
    LET has == already_has_url(data, url) IN
    /\ tool = "bkmk" /\ MayCall
    /\ IF has.panic THEN Panicked("add_bookmark_from_url")
       ELSE IF IsSome(has.value)
            THEN Returned("add_bookmark_from_url", Err("RepeatedUrl", has.value))
       ELSE IF IsSome(fetched)
            THEN Pushed("add_bookmark_from_url", trim(Unwrap(fetched)), url, << >>)
       ELSE IF ~read_line
            THEN Returned("add_bookmark_from_url", Err("FailedToGetTitle", None))
       ELSE IF typed = None
            THEN Panicked("add_bookmark_from_url")
       ELSE Pushed("add_bookmark_from_url", trim(Unwrap(typed)), url, << >>)

\* Manager::find_mut, default (core::data, not part of the sources at
\* hand): a linear scan of the collection for the identity.
RECURSIVE position(_, _, _)
position(bookmarks, k, id) ==
    IF k > Len(bookmarks) THEN None
    ELSE IF bookmarks[k].id = id THEN Some(k)
    ELSE position(bookmarks, k + 1, id)

\* Vec::swap_remove: the last element takes the place of the removed one.
swap_remove(v, pos) ==
    IF pos = Len(v) THEN SubSeq(v, 1, Len(v) - 1)
    ELSE [SubSeq(v, 1, Len(v) - 1) EXCEPT ![pos] = v[Len(v)]]

\* The unarchived bookmarks, in collection order.
not_archived(bookmarks) == SelectSeq(bookmarks, LAMBDA b : ~b.archived)

\* subcmd_menu after both pickers answered: `pick` is the chosen row of the
\* not_archived listing, `action` the chosen row of ACTIONS, `cmd_ok` whether
\* the external command of "open" or "copy" exited with 0.
menu_action(pick, action, cmd_ok) ==
    LET chosen_id == not_archived(data)[pick].id
        pos == Unwrap(position(data, 1, chosen_id))
    IN  /\ lastOp' = "subcmd_menu"
        /\ wrote' = FALSE
        /\ asked' = 0
        /\ calls' = calls + 1
        /\ saves' = 0
        /\ BkUnchanged
        /\ CASE action = 0 ->
                  /\ result' = IF cmd_ok THEN Ok ELSE Err("SilentErr", None)
                  /\ UNCHANGED <<data, modified, used_ids>>
             [] action = 1 ->
                  /\ data' = [data EXCEPT ![pos].archived = TRUE]
                  /\ modified' = TRUE
                  /\ result' = Ok
                  /\ UNCHANGED used_ids
             [] action = 2 ->
                  /\ modified' = TRUE
                  /\ result' = IF cmd_ok THEN Ok ELSE Err("Message", None)
                  /\ UNCHANGED <<data, used_ids>>
             [] action = 3 ->
                  /\ data' = swap_remove(data, pos)
                  /\ modified' = TRUE
                  /\ result' = Ok
                  /\ UNCHANGED used_ids

\* subcmd_menu.  pick = 0 / action = -1: the picker was cancelled.
subcmd_menu(pick, action, cmd_ok) ==
    /\ tool = "bkmk" /\ MayCall
    /\ IF Len(not_archived(data)) = 0
       THEN Returned("subcmd_menu", Err("Message", None))
       ELSE IF pick = 0 \/ action = -1
            THEN Returned("subcmd_menu", Err("SilentErr", None))
            ELSE /\ pick <= Len(not_archived(data))
                 /\ menu_action(pick, action, cmd_ok)

\* save_if_modified clearing the dirty flag after it wrote.
Bookmark_save_clearing ==
    /\ tool = "bkmk" /\ Running /\ saves < MaxSaves
    /\ saves' = saves + 1
    /\ wrote' = modified
    /\ modified' = FALSE
    /\ lastOp' = "save_if_modified"
    /\ result' = Ok
    /\ asked' = 0
    /\ UNCHANGED <<tool, calls, data, used_ids, internal_ids, ref_ids, loaded>>

\* BookmarkManager::save_if_modified; save_to_file writes the whole
\* collection.
Bookmark_save_if_modified ==
    /\ tool = "bkmk" /\ Running /\ saves < MaxSaves
    /\ saves' = saves + 1
    /\ wrote' = modified
    /\ lastOp' = "save_if_modified"
    /\ result' = Ok
    /\ asked' = 0
    /\ UNCHANGED <<tool, calls, data, modified, used_ids, internal_ids, ref_ids, loaded>>

\* ExitCode::from(ExitResult) (core, not part of the sources at hand): 0 for
\* Ok, 1 for an error, silent or not.
ExitCode_from(res) == IF res.kind = "Ok" THEN 0 ELSE 1

\* ExitCode::and_then (core, not part of the sources at hand) runs its
\* closure when the code is 0 and passes the code on otherwise: the caller
\* persists on success.
and_then_runs(code) == code = 0

\* The end of main: the result of the command becomes the exit code, and the
\* closure handed to and_then saves the store.  The exit code is kept in
\* `result`.
main ==
    /\ tool = "bkmk" /\ Running /\ calls > 0 /\ saves = 0
    /\ lastOp' = "main"
    /\ IF and_then_runs(ExitCode_from(result))
       THEN /\ wrote' = modified
            /\ result' = [kind |-> "Exit", id |-> Some(0)]
       ELSE /\ wrote' = FALSE
            /\ result' = [kind |-> "Exit", id |-> Some(ExitCode_from(result))]
    /\ asked' = 0
    /\ UNCHANGED <<tool, calls, saves, data, modified, used_ids, internal_ids, ref_ids, loaded>>

AddBookmark ==
    /\ tool = "bkmk" /\ MayCall
    /\ \E name \in BkNames, url \in ArgUrls, tags \in TagArgs :
        add_bookmark(name, url, tags)

AddBookmarkFromUrl ==
    /\ tool = "bkmk" /\ MayCall
    /\ \E url \in ArgUrls, read_line \in BOOLEAN,
       fetched \in {None} \cup {Some(t) : t \in Titles} :
        \E typed \in (IF fetched = None /\ read_line
                      THEN {None} \cup {Some(t) : t \in Titles}
                      ELSE {None}) :
            add_bookmark_from_url(url, read_line, fetched, typed)

SubcmdMenu ==
    /\ tool = "bkmk" /\ MayCall
    /\ \E pick \in 0..MaxSize, action \in -1..3, cmd_ok \in BOOLEAN :
        subcmd_menu(pick, action, cmd_ok)

NextBkmk ==
    \/ AddBookmark
    \/ AddBookmarkFromUrl
    \/ SubcmdMenu
    \/ Bookmark_save_if_modified
    \/ main

SpecBkmk == InitBkmk /\ [][NextBkmk]_vars

----------------------------------------------------------------------------
(* Either tool. *)

Init == InitBkmk \/ InitItmn

Next == NextBkmk \/ NextItmn

Spec == Init /\ [][Next]_vars

----------------------------------------------------------------------------
(* Properties. *)

\* The store was constructed successfully.
Constructed == ~(lastOp = "new" /\ result.kind # "Ok")

ItemStore == tool = "itmn" /\ Constructed

BookmarkStore == tool = "bkmk" /\ Constructed

\* Every item of the tree, at every depth.
AllItems == PreOrder(data)

\* No two positions of the sequence q agree on key(_), among the positions
\* that has(_) holds of.
NoRepeat(q, key(_), has(_)) ==
    \A i, j \in 1..Len(q) :
        (i # j /\ has(q[i]) /\ has(q[j])) => key(q[i]) # key(q[j])

InternalIdsUnique(q) == NoRepeat(q, LAMBDA i : i.internal_id, LAMBDA i : TRUE)

RefIdsUnique(q) == NoRepeat(q, LAMBDA i : i.ref_id, LAMBDA i : IsSome(i.ref_id))

\* C1: in an Item Store, after construction and any adds, no two items of
\* the tree share an internal_id and no two items that have a ref_id share it.
C1_ItemIdsUnique ==
    ItemStore => InternalIdsUnique(AllItems) /\ RefIdsUnique(AllItems)

\* C2: in an Item Store every item of the tree has a ref_id if and only if
\* its state is Todo or Note.
C2_RefIdPresence ==
    ItemStore =>
        \A k \in 1..Len(AllItems) :
            IsSome(AllItems[k].ref_id) <=> AllItems[k].state \in {"Todo", "Note"}

\* C3: in a Bookmark Store, after construction and any adds, archives and
\* deletes, no two bookmarks share an id.
C3_BookmarkIdsUnique ==
    BookmarkStore => NoRepeat(data, LAMBDA b : b.id, LAMBDA b : TRUE)

\* C3 witness: an add from a URL gave a second bookmark to a store, with an
\* id below the one the loaded bookmark has.
C3_Witness ==
    /\ BookmarkStore
    /\ lastOp = "add_bookmark_from_url" /\ result.kind = "Ok"
    /\ Len(data) = 2 /\ data[2].id < data[1].id

\* Two URLs are equal or differ only by one trailing slash.
SameUrl(u, v) == u = v \/ u = v \o <<"/">> \/ v = u \o <<"/">>

UrlsUnique(q) == \A i, j \in 1..Len(q) : i # j => ~SameUrl(q[i].url, q[j].url)

\* C4: if no two bookmarks of the loaded store have URLs that are equal or
\* differ only by one trailing slash, then no two bookmarks of the store do.
C4_UrlsUnique ==
    (BookmarkStore /\ UrlsUnique(loaded)) => UrlsUnique(data)

\* A step that is a call of save_if_modified.
SaveStep == saves' = saves + 1

\* C5 as claimed: of two save_if_modified calls in a row the second does not
\* write, and the first did if the store was dirty.
C5_SecondSaveIsNoOp ==
    [][(SaveStep /\ saves' = 2) => (~wrote' /\ (modified => wrote))]_vars

\* C5 as amended: two save_if_modified calls in a row do the same thing, both
\* write when the store is dirty and neither writes when it is clean, and
\* neither changes the store.
C5_SavesRepeat ==
    [][(SaveStep /\ saves' = 2) =>
          /\ wrote' = wrote
          /\ wrote' = modified
          /\ data' = data /\ modified' = modified]_vars

\* C5 witness: the second of two saves in a row wrote a dirty store again.
C5_Witness == saves = 2 /\ wrote /\ modified /\ Constructed

\* C6: the dirty flag is false right after construction, no step takes it
\* from true to false, and save_if_modified returns success and writes
\* exactly when the flag is true at the call.
C6_DirtyFlag ==
    /\ [](lastOp = "new" => ~modified)
    /\ [][/\ modified => modified'
          /\ SaveStep => (wrote' = modified /\ result'.kind = "Ok")]_vars

\* C6 witness: a store that one call made dirty was saved, with a write.
C6_Witness ==
    /\ Constructed /\ lastOp = "save_if_modified"
    /\ saves = 1 /\ calls = 1 /\ modified /\ wrote

\* The id of the first bookmark of q whose url is u, if any.
FirstWithUrl(q, u) ==
    LET at == {k \in 1..Len(q) : q[k].url = u} IN
    IF at = {} THEN None
    ELSE Some(q[CHOOSE k \in at : \A l \in at : k <= l].id)

\* u with its trailing slash removed if it has one and added if not.
Toggled(u) ==
    IF u # << >> /\ u[Len(u)] = "/" THEN SubSeq(u, 1, Len(u) - 1) ELSE u \o <<"/">>

\* C7: an add_bookmark rejected for a duplicate URL carries the id of the
\* first bookmark with exactly that URL, or else of the first bookmark with
\* the trailing-slash-toggled URL, and leaves the records, the used-ID set
\* and the dirty flag as they were.
C7_RejectedAdd ==
    [][(lastOp' = "add_bookmark" /\ result'.kind = "RepeatedUrl") =>
       \A name \in BkNames, url \in ArgUrls, tags \in TagArgs :
          add_bookmark(name, url, tags) =>
              /\ result'.id = IF IsSome(FirstWithUrl(data, url))
                              THEN FirstWithUrl(data, url)
                              ELSE FirstWithUrl(data, Toggled(url))
              /\ IsSome(result'.id)
              /\ data' = data /\ used_ids' = used_ids /\ modified' = modified]_vars

\* C7 witness: an add was rejected on a store that was already dirty, with
\* the id of a bookmark that is not the first of the list.
C7_Witness ==
    /\ BookmarkStore
    /\ lastOp = "add_bookmark" /\ result.kind = "RepeatedUrl"
    /\ modified
    /\ Len(data) >= 2 /\ result.id = Some(data[2].id)

\* n is the smallest non-negative integer that is not in used.
SmallestUnused(n, used) == n \notin used /\ \A m \in 0..(n - 1) : m \in used

RECURSIVE PathsOf(_)
PathsOf(items) ==
    UNION {{<<k>>} \cup {<<k>> \o p : p \in PathsOf(items[k].children)} :
              k \in 1..Len(items)}

\* The item at path p comes before the item at path q in pre-order.
PathBefore(p, q) ==
    \/ Len(p) < Len(q) /\ SubSeq(q, 1, Len(p)) = p
    \/ \E i \in 1..Len(p) :
          /\ i <= Len(q)
          /\ p[i] < q[i]
          /\ \A j \in 1..(i - 1) : p[j] = q[j]

\* The paths of the items that carry reference ID r.
PathsWithRef(items, r) == {p \in PathsOf(items) : ItemAt(items, p).ref_id = Some(r)}

FirstInPreOrder(paths) == CHOOSE p \in paths : \A q \in paths \ {p} : PathBefore(p, q)

TreeInternalIds == {AllItems[k].internal_id : k \in 1..Len(AllItems)}

TreeRefIds ==
    {Unwrap(AllItems[k].ref_id) : k \in {l \in 1..Len(AllItems) : IsSome(AllItems[l].ref_id)}}

\* C9: add_child_to_ref_id(r, ..) succeeds exactly when an item of the tree
\* has ref_id r; then the only change of the tree is a new last child of the
\* first such item in pre-order, which has the smallest internal_id no item
\* of the tree uses and, unless it is Done, the smallest ref_id no item of
\* the tree uses; on NotFound the tree is unchanged.
C9_AddChild ==
    [][(lastOp' = "add_child_to_ref_id") =>
       \A r \in Ids, name \in Names, context \in Contexts, state \in States,
          children \in ChildArgs :
          add_child_to_ref_id(r, name, context, state, children) =>
              LET matches == PathsWithRef(data, r) IN
              /\ (result'.kind = "Ok") <=> (matches # {})
              /\ matches = {} => (result'.kind = "NotFound" /\ data' = data)
              /\ matches # {} =>
                    LET p == FirstInPreOrder(matches)
                        parent == ItemAt(data, p)
                        grown == ItemAt(data', p)
                        new == grown.children[Len(grown.children)]
                    IN  /\ data' = ReplaceAt(data, p,
                                     [parent EXCEPT !.children = Append(@, new)])
                        /\ new.name = name /\ new.context = context
                        /\ new.state = state /\ new.children = children
                        /\ SmallestUnused(new.internal_id, TreeInternalIds)
                        /\ state # "Done" =>
                              /\ IsSome(new.ref_id)
                              /\ SmallestUnused(Unwrap(new.ref_id), TreeRefIds)]_vars

\* C10: after a call of add_child_to_ref_id the dirty flag is true, whether
\* the child was added or NotFound was returned, and a save_if_modified
\* that follows writes.
C10_AddChildSetsDirty ==
    /\ [](lastOp = "add_child_to_ref_id" => modified)
    /\ [][(lastOp = "add_child_to_ref_id" /\ SaveStep) => wrote']_vars

\* C10 witness: the first call on a store returned NotFound and the store is
\* dirty, its tree being the one constructed.
C10_Witness ==
    /\ ItemStore
    /\ lastOp = "add_child_to_ref_id" /\ result.kind = "NotFound"
    /\ calls = 1 /\ modified
    /\ data = ItemManager_new(loaded).data

\* C11: a call of mass_modify asks for confirmation once when the selection
\* has more than one identifier and not at all otherwise, and it leaves the
\* tree and the dirty flag as they were unless the selection has more than
\* one identifier and the answer was yes.  Stated of every state in which
\* mass_modify is called next, for every selection, change and answer.
C11_MassModifyGate ==
    (tool = "itmn" /\ MayCall) =>
        \A range \in Ranges, m \in BatchMods, confirmed \in BOOLEAN :
            LET out == mass_modify_effect(range, m, confirmed)
            IN  /\ out.asked = (IF Len(range) > 1 THEN 1 ELSE 0)
                /\ ~(Len(range) > 1 /\ confirmed) =>
                      (out.data = data /\ out.modified = modified)

\* C11 witness: the first call on a store was a mass_modify that asked once
\* and changed an item.
C11_Witness ==
    /\ ItemStore
    /\ lastOp = "mass_modify" /\ asked = 1 /\ calls = 1
    /\ modified /\ data # ItemManager_new(loaded).data

\* The paths of the items a selection reaches: for each identifier of the
\* selection, the first item in pre-order that carries it.
Selected(items, range) ==
    {FirstInPreOrder(PathsWithRef(items, range[k])) :
        k \in {l \in 1..Len(range) : PathsWithRef(items, range[l]) # {}}}

\* C12: a confirmed mass_modify keeps the shape of the tree; with note unset
\* no state changes; with note = true a selected item that is not Done
\* becomes Note; with note = false a selected Note item becomes Todo and
\* Todo and Done items keep their state; and no Done item changes state.
C12_MassModifyStates ==
    [][(lastOp' = "mass_modify" /\ asked' = 1) =>
       \A range \in Ranges, m \in BatchMods :
          (Len(range) > 1 /\ mass_modify(range, m, TRUE)) =>
              /\ PathsOf(data') = PathsOf(data)
              /\ \A p \in PathsOf(data) :
                    LET old == ItemAt(data, p).state
                        new == ItemAt(data', p).state
                    IN  /\ m.note = None => new = old
                        /\ p \notin Selected(data, range) => new = old
                        /\ (m.note = Some(TRUE) /\ p \in Selected(data, range)
                                /\ old # "Done") => new = "Note"
                        /\ (m.note = Some(FALSE) /\ p \in Selected(data, range)) =>
                              new = (IF old = "Note" THEN "Todo" ELSE old)
                        /\ old = "Done" => new = "Done"]_vars

\* C13: construction of an Item Store succeeds exactly when no two items of
\* the loaded tree, at any depth, share an internal_id or a present ref_id,
\* and fails with RepeatedInternalID or RepeatedRefID otherwise.
C13_ConstructionValidatesTree ==
    (tool = "itmn" /\ lastOp = "new") =>
        /\ result.kind \in {"Ok", "RepeatedInternalID", "RepeatedRefID"}
        /\ result.kind = "Ok" <=>
              (InternalIdsUnique(PreOrder(loaded)) /\ RefIdsUnique(PreOrder(loaded)))

\* The used-ID sets of an Item Store mirror its tree.
IdSetsInSync == ref_ids = TreeRefIds /\ internal_ids = TreeInternalIds

\* C14: in an Item Store, after construction and any adds, the used
\* reference-ID set is the set of ref_ids present in the tree and the used
\* internal-ID set is the set of internal_ids of the tree.
C14_ItemIdSetsInSync == ItemStore => IdSetsInSync

\* The ids of the bookmarks of a list.
BookmarkIds(q) == {q[k].id : k \in 1..Len(q)}

\* C15: in a Bookmark Store, after construction and any adds, archives and
\* deletes, the used-ID set is the set of ids of the bookmarks in the store.
C15_BookmarkIdSetInSync == BookmarkStore => used_ids = BookmarkIds(data)

\* C16: when main returns after a command that failed on a store whose
\* records it had changed, the store has been written and the exit code is
\* not 0.
C16_SaveAfterFailure ==
    [][(lastOp' = "main" /\ result.kind # "Ok" /\ modified /\ data # loaded) =>
          (wrote' /\ result'.id # Some(0))]_vars

\* C17: in an Item Store, for every reference ID r, find and find_mut locate
\* the same item, which is the first item in pre-order that carries r, and
\* they return no match exactly when no item of the tree carries r.
C17_FindPreOrder ==
    ItemStore =>
        \A r \in Ids :
            LET found == find(data, r)
                carriers == PathsWithRef(data, r)
            IN  /\ found = find_mut(data, r)
                /\ found = None <=> carriers = {}
                /\ carriers # {} => found = FirstInPreOrder(carriers)

\* C17 witness: add_child_to_ref_id found its target in a tree where two
\* items carry one reference ID and no item carries another one.
C17_Witness ==
    /\ ItemStore
    /\ lastOp = "add_child_to_ref_id" /\ result.kind = "Ok"
    /\ \E r \in Ids : Cardinality(PathsWithRef(data, r)) >= 2
    /\ \E r \in Ids : find(data, r) = None

\* The first position of q whose record repeats an identifier of an earlier
\* record, or 0.
FirstViolation(q) ==
    LET bad == {k \in 1..Len(q) :
                  \E j \in 1..(k - 1) :
                     \/ q[j].internal_id = q[k].internal_id
                     \/ (IsSome(q[k].ref_id) /\ q[j].ref_id = q[k].ref_id)}
    IN  IF bad = {} THEN 0 ELSE CHOOSE k \in bad : \A l \in bad : k <= l

\* The record at position k of q repeats the present ref_id of an earlier one.
RepeatsRefId(q, k) ==
    IsSome(q[k].ref_id) /\ \E j \in 1..(k - 1) : q[j].ref_id = q[k].ref_id

\* C18 as claimed: construction of an Item Store reports the first top-level
\* record, in list order, that repeats an identifier of an earlier one; it
\* reports RepeatedInternalID with the internal_id of that record when the
\* internal_id is repeated, and RepeatedRefID with its ref_id only when the
\* ref_id alone is repeated.
C18_ConstructionErrorOrder ==
    (tool = "itmn" /\ lastOp = "new" /\ FirstViolation(loaded) # 0) =>
        LET rec == loaded[FirstViolation(loaded)]
            earlier == SubSeq(loaded, 1, FirstViolation(loaded) - 1)
        IN  IF \E j \in 1..Len(earlier) : earlier[j].internal_id = rec.internal_id
            THEN result = Err("RepeatedInternalID", Some(rec.internal_id))
            ELSE result = Err("RepeatedRefID", rec.ref_id)

\* C18 as amended: construction of an Item Store succeeds when no top-level
\* record repeats an identifier of an earlier one, and otherwise reports the
\* first record, in list order, that does; it reports RepeatedRefID with the
\* ref_id of that record when the ref_id is repeated, and
\* RepeatedInternalID with its internal_id only when the internal_id alone
\* is repeated.
C18_RefIdCheckedFirst ==
    (tool = "itmn" /\ lastOp = "new") =>
        IF FirstViolation(loaded) = 0 THEN result = Ok
        ELSE LET k == FirstViolation(loaded) IN
             IF RepeatsRefId(loaded, k)
             THEN result = Err("RepeatedRefID", loaded[k].ref_id)
             ELSE result = Err("RepeatedInternalID", Some(loaded[k].internal_id))

\* C18 witness: construction failed on a record that repeats both the
\* internal_id and the ref_id of an earlier record.
C18_Witness ==
    /\ tool = "itmn" /\ lastOp = "new" /\ result.kind = "RepeatedRefID"
    /\ LET k == FirstViolation(loaded) IN
       /\ k # 0
       /\ RepeatsRefId(loaded, k)
       /\ \E j \in 1..(k - 1) : loaded[j].internal_id = loaded[k].internal_id

\* The positions of the top-level records construction back-fills.
BackFilled(q) ==
    {k \in 1..Len(q) : q[k].state \in {"Todo", "Note"} /\ q[k].ref_id = None}

\* C19: after construction of an Item Store every top-level Todo or Note
\* record that came without ref_id has one, which no record of the loaded
\* tree carries and no other back-filled record got, and which is in the
\* used reference-ID set.
C19_BackFillFresh ==
    (ItemStore /\ lastOp = "new") =>
        \A k \in BackFilled(loaded) :
            /\ IsSome(data[k].ref_id)
            /\ \A i \in 1..Len(PreOrder(loaded)) :
                  PreOrder(loaded)[i].ref_id # data[k].ref_id
            /\ \A l \in BackFilled(loaded) \ {k} : data[l].ref_id # data[k].ref_id
            /\ Unwrap(data[k].ref_id) \in ref_ids

\* C20: in either store, whenever the records in memory differ from the
\* record list that was loaded, the dirty flag is true.
C20_NoUnsavedDivergence == Constructed => (data # loaded => modified)

\* C21: already_has_url returns a value for every URL, the empty one
\* included: on the bookmarks of any store the lookup ends with a matching
\* id or with no match, and no call of add_bookmark ends the process with
\* a panic.
C21_UrlLookupReturns ==
    BookmarkStore =>
        /\ \A url \in ArgUrls : ~already_has_url(data, url).panic
        /\ lastOp = "add_bookmark" => result.kind # "Panic"

====
